---- MODULE Spec2Model ----
(***************************************************************************)
(* pdFetch: change tracking and incremental synchronisation of a folder of *)
(* PDF exports against a remote knowledge-base catalog.                    *)
(*                                                                         *)
(* The model follows the source files                                      *)
(*   src/pdfetch_modules/core/session.js      (session.js + sn_tools.js)   *)
(*   src/pdfetch_modules/business/operation.js (operation.js, config_tools,*)
(*                                              fs_tools)                  *)
(*   src/unnamed/part_002                      (main.js: mainExec)         *)
(*   src/unnamed/part_001                      (index.js: entry point)     *)
(***************************************************************************)
EXTENDS Integers, Sequences, FiniteSets, TLC

\* ------------------------------------------------------------------ bounds
MaxSysId == 2
MaxNumber == 2
MaxVersion == 2
\* The sys_ids of the lists getKBChanges is given when it is checked alone.
MaxDiffSysId == 3

SysIds == 1..MaxSysId
DiffSysIds == 1..MaxDiffSysId
Numbers == 1..MaxNumber
Versions == 1..MaxVersion

\* ------------------------------------------------------------ data model
\* One record of the array getArticlesList builds; version stands for
\* version.display_value, the only field of version the program reads.
ArticleRecord(ids) == [sys_id : ids, number : Numbers, version : Versions]

\* A file, or a value a function returns, is held as the set of its one
\* content; a file that does not exist, the undefined a failed fetch returns
\* and the null of "no report" are the empty set.
NoFile == {}
Undefined == {}
Null == {}
NotRead == {}
File(content) == {content}
Content(file) == CHOOSE c \in file : TRUE

Range(s) == {s[i] : i \in 1..Len(s)}

\* The catalog answers of the remote Table API: sys_id is the table's
\* primary key, so no two records of one answer share it; number is a
\* display field and may repeat.
SnapshotsOf(ids) ==
  UNION {{s \in [1..n -> ArticleRecord(ids)] :
            \A i, j \in 1..n : i # j => s[i].sys_id # s[j].sys_id} :
         n \in 0..Cardinality(ids)}
Snapshots == SnapshotsOf(SysIds)
DiffSnapshots == SnapshotsOf(DiffSysIds)

\* articlesList.map((listItem) => listItem.number)
NumbersOf(list) == [i \in 1..Len(list) |-> list[i].number]

\* ------------------------------------------------------- getKBChanges
\* new Map(list.map((article) => [article.sys_id, article])): the keys keep
\* the position of their first occurrence, the value is the last one set.
MapKeys(list) ==
  LET F[i \in 0..Len(list)] ==
        IF i = 0 THEN <<>>
        ELSE IF \E j \in 1..(i - 1) : list[j].sys_id = list[i].sys_id
             THEN F[i - 1]
             ELSE Append(F[i - 1], list[i].sys_id)
  IN F[Len(list)]

MapHas(list, k) == \E i \in 1..Len(list) : list[i].sys_id = k

MapGet(list, k) ==
  list[CHOOSE i \in 1..Len(list) :
         /\ list[i].sys_id = k
         /\ \A j \in (i + 1)..Len(list) : list[j].sys_id # k]

\* A variant of the loop that pushes the number of every current article.
AddedOfEveryKey(currList, olderList) ==
  LET keys == MapKeys(currList)
  IN [i \in 1..Len(keys) |-> MapGet(currList, keys[i]).number]

\* A variant of the loop that takes every article of both lists for updated,
\* whatever its versions.
UpdatedOfEveryCommonKey(currList, olderList) ==
  LET keys == MapKeys(currList)
      F[i \in 0..Len(keys)] ==
        IF i = 0 THEN <<>>
        ELSE IF MapHas(olderList, keys[i])
             THEN Append(F[i - 1], MapGet(currList, keys[i]).number)
             ELSE F[i - 1]
  IN F[Len(keys)]

\* currArticles.forEach: push article.number when the sys_id is new
AddedOf(currList, olderList) ==
  LET keys == MapKeys(currList)
      F[i \in 0..Len(keys)] ==
        IF i = 0 THEN <<>>
        ELSE IF ~MapHas(olderList, keys[i])
             THEN Append(F[i - 1], MapGet(currList, keys[i]).number)
             ELSE F[i - 1]
  IN F[Len(keys)]

\* currArticles.forEach: else-branch, version.display_value differs
UpdatedOf(currList, olderList) ==
  LET keys == MapKeys(currList)
      F[i \in 0..Len(keys)] ==
        IF i = 0 THEN <<>>
        ELSE IF /\ MapHas(olderList, keys[i])
                /\ MapGet(currList, keys[i]).version
                     # MapGet(olderList, keys[i]).version
             THEN Append(F[i - 1], MapGet(currList, keys[i]).number)
             ELSE F[i - 1]
  IN F[Len(keys)]

\* A variant of the loop that puts each number in front of the ones it has.
RemovedOfNewestFirst(currList, olderList) ==
  LET keys == MapKeys(olderList)
      F[i \in 0..Len(keys)] ==
        IF i = 0 THEN <<>>
        ELSE IF ~MapHas(currList, keys[i])
             THEN <<MapGet(olderList, keys[i]).number>> \o F[i - 1]
             ELSE F[i - 1]
  IN F[Len(keys)]

\* olderArticles.forEach: push article.number when the sys_id is gone
RemovedOf(currList, olderList) ==
  LET keys == MapKeys(olderList)
      F[i \in 0..Len(keys)] ==
        IF i = 0 THEN <<>>
        ELSE IF ~MapHas(currList, keys[i])
             THEN Append(F[i - 1], MapGet(olderList, keys[i]).number)
             ELSE F[i - 1]
  IN F[Len(keys)]

\* The changes object getKBChanges writes and returns (last_updated_on, a
\* wall-clock stamp, is left out: nothing in the program reads it).
Changes(currList, olderList) ==
  [added |-> AddedOf(currList, olderList),
   updated |-> UpdatedOf(currList, olderList),
   removed |-> RemovedOf(currList, olderList)]

\* ------------------------------------------------------------------ paths
\* A path is a flag (does it start at the root) and its segments.  A segment
\* is a name; the file <number>.pdf of an article carries the number.
Seg(name) == [name |-> name, num |-> 0]
PdfSeg(n) == [name |-> ".pdf", num |-> n]

LOCK_FILE_NAME == Seg("operation_in_progress.lock")
ListFileName == Seg("file_list.json")
OldListFileName == Seg("file_list.json.old")
ChangesFileName == Seg("file_changes.json")
PdfFolderName == Seg("PDFs")
\* `${fileNameBase}.zip` and `${fileNameBase}.pdf`
ArchiveFileName == Seg("<fileNameBase>.zip")
MergedFileName == Seg("<fileNameBase>.pdf")

\* path.join(a, b): the strings are glued with a separator and normalised,
\* so a leading separator of b is swallowed and the result is rooted iff a is.
PathJoin(a, b) == [abs |-> a.abs, segs |-> a.segs \o b.segs]

\* What the operating system makes of a path: a relative one is taken from
\* the working directory of the process.
Resolve(p, cwd) == IF p.abs THEN p ELSE [abs |-> TRUE, segs |-> cwd.segs \o p.segs]

\* The output directory on disk, and the ways a run can name it: by its
\* absolute path (what the documentation asks for), as "." from inside it,
\* or by a relative path from its parent.  dir is the output_dir setting,
\* cwd the working directory of the process.
OutDirOnDisk == [abs |-> TRUE, segs |-> <<Seg("out")>>]
RootDir == [abs |-> TRUE, segs |-> <<>>]
Documented == [dir |-> OutDirOnDisk, cwd |-> RootDir]
Invocations ==
  {Documented,
   [dir |-> [abs |-> FALSE, segs |-> <<>>], cwd |-> OutDirOnDisk],
   [dir |-> [abs |-> FALSE, segs |-> <<Seg("out")>>], cwd |-> RootDir]}
NoInvocation == [dir |-> RootDir, cwd |-> RootDir]

\* ------------------------------------------------------------ file system
\* The content of the output directory: the two snapshot files and the
\* change report (their content, or NoFile), the PDFs folder and the numbers
\* of the <number>.pdf files in it, the lock marker, and the archive and the
\* merged document of the packaging modes.
EmptyDir ==
  [list |-> NoFile, old |-> NoFile, changes |-> NoFile,
   pdfDir |-> FALSE, pdfs |-> {}, lock |-> FALSE,
   archive |-> FALSE, merged |-> FALSE]

PdfHomeOnDisk == PathJoin(OutDirOnDisk, [abs |-> FALSE, segs |-> <<PdfFolderName>>])
OnDisk(name) == PathJoin(OutDirOnDisk, [abs |-> FALSE, segs |-> <<name>>])
PdfOnDisk(n) == PathJoin(PdfHomeOnDisk, [abs |-> FALSE, segs |-> <<PdfSeg(n)>>])

\* fs.existsSync / a successful lstat of an absolute path
Exists(f, p) ==
  \/ p = OutDirOnDisk
  \/ p = OnDisk(ListFileName) /\ f.list # NoFile
  \/ p = OnDisk(OldListFileName) /\ f.old # NoFile
  \/ p = OnDisk(ChangesFileName) /\ f.changes # NoFile
  \/ p = OnDisk(LOCK_FILE_NAME) /\ f.lock
  \/ p = OnDisk(ArchiveFileName) /\ f.archive
  \/ p = OnDisk(MergedFileName) /\ f.merged
  \/ p = PdfHomeOnDisk /\ f.pdfDir
  \/ \E n \in Numbers : p = PdfOnDisk(n) /\ f.pdfDir /\ n \in f.pdfs

\* fsp.unlink of a file, fsp.rm (recursive) of a folder, at an absolute path
Remove(f, p) ==
  IF p = OnDisk(ListFileName) THEN [f EXCEPT !.list = NoFile]
  ELSE IF p = OnDisk(OldListFileName) THEN [f EXCEPT !.old = NoFile]
  ELSE IF p = OnDisk(ChangesFileName) THEN [f EXCEPT !.changes = NoFile]
  ELSE IF p = OnDisk(LOCK_FILE_NAME) THEN [f EXCEPT !.lock = FALSE]
  ELSE IF p = OnDisk(ArchiveFileName) THEN [f EXCEPT !.archive = FALSE]
  ELSE IF p = OnDisk(MergedFileName) THEN [f EXCEPT !.merged = FALSE]
  ELSE IF p = PdfHomeOnDisk THEN [f EXCEPT !.pdfDir = FALSE, !.pdfs = {}]
  ELSE IF \E n \in Numbers : p = PdfOnDisk(n)
       THEN [f EXCEPT !.pdfs = @ \ {n \in Numbers : p = PdfOnDisk(n)}]
  ELSE f

\* ------------------------------------------------- removeFolderContents
\* A pattern is a literal path or a wildcard over the names of a folder.
Literal(p) == [wild |-> "", path |-> p]
Wild(w) == [wild |-> w, path |-> RootDir]

\* A variant in which "*.json*" matches the names that end in .json alone.
WildMatchesToTheEnd(w) ==
  IF w = "*.json*" THEN <<ListFileName, ChangesFileName>>
  ELSE IF w = "*.pdf" THEN <<MergedFileName>>
  ELSE IF w = "*.zip" THEN <<ArchiveFileName>>
  ELSE <<>>

\* The names the wildcards of resetWorkspace match among those a folder of
\* this program can hold.
WildMatches(w) ==
  IF w = "*.json*" THEN <<ListFileName, OldListFileName, ChangesFileName>>
  ELSE IF w = "*.pdf" THEN <<MergedFileName>>
  ELSE IF w = "*.zip" THEN <<ArchiveFileName>>
  ELSE <<>>

\* A variant in which a literal pattern comes back whether or not a file
\* is there.
GlobSyncListsMissing(f, pattern, folderPath, cwd) ==
  LET base == Resolve(folderPath, cwd)
      rel(name) == [abs |-> FALSE, segs |-> <<name>>]
      names == WildMatches(pattern.wild)
  IN IF pattern.wild = ""
     THEN <<pattern.path>>
     ELSE SelectSeq([i \in 1..Len(names) |-> rel(names[i])],
                    LAMBDA m : Exists(f, Resolve(m, base)))

\* glob.sync(pattern, { cwd: folderPath }): the existing paths the pattern
\* matches.  A rooted pattern is looked up from the root and comes back
\* rooted; any other is looked up below cwd and comes back relative to it.
GlobSync(f, pattern, folderPath, cwd) ==
  LET base == Resolve(folderPath, cwd)
      rel(name) == [abs |-> FALSE, segs |-> <<name>>]
      names == WildMatches(pattern.wild)
  IN IF pattern.wild = ""
     THEN IF Exists(f, Resolve(pattern.path, base)) THEN <<pattern.path>> ELSE <<>>
     ELSE SelectSeq([i \in 1..Len(names) |-> rel(names[i])],
                    LAMBDA m : Exists(f, Resolve(m, base)))

\* fsp.readdir of the output directory
Listing(f, folderPath, cwd) ==
  LET base == Resolve(folderPath, cwd)
      rel(name) == [abs |-> FALSE, segs |-> <<name>>]
      root == <<ListFileName, OldListFileName, ChangesFileName,
                LOCK_FILE_NAME, PdfFolderName, ArchiveFileName, MergedFileName>>
  IN IF base = OutDirOnDisk
     THEN SelectSeq([i \in 1..Len(root) |-> rel(root[i])],
                    LAMBDA m : Exists(f, Resolve(m, base)))
     ELSE <<>>

\* filesToDelete is a Set: a match met again keeps its first position.
SetAdd(seq, more) ==
  LET F[i \in 0..Len(more)] ==
        IF i = 0 THEN seq
        ELSE IF more[i] \in Range(F[i - 1]) THEN F[i - 1]
             ELSE Append(F[i - 1], more[i])
  IN F[Len(more)]

\* filesToDelete: the matches of every pattern, in pattern order; with no
\* pattern, everything readdir lists.
FilesToDelete(f, folderPath, patterns, cwd) ==
  LET F[i \in 0..Len(patterns)] ==
        IF i = 0 THEN <<>>
        ELSE SetAdd(F[i - 1], GlobSync(f, patterns[i], folderPath, cwd))
  IN IF Len(patterns) > 0 THEN F[Len(patterns)] ELSE Listing(f, folderPath, cwd)

\* The deletion loop: each entry is looked up at path.join(folderPath, file);
\* an lstat that fails throws, and the catch around the whole body ends the
\* loop there, leaving the remaining entries in place.
DeleteLoop(f, folderPath, files, cwd) ==
  LET F[i \in 0..Len(files)] ==
        IF i = 0 THEN [fs |-> f, thrown |-> FALSE]
        ELSE LET prev == F[i - 1]
                 filePath == Resolve(PathJoin(folderPath, files[i]), cwd)
             IN IF prev.thrown THEN prev
                ELSE IF ~Exists(prev.fs, filePath) THEN [prev EXCEPT !.thrown = TRUE]
                ELSE [prev EXCEPT !.fs = Remove(prev.fs, filePath)]
  IN F[Len(files)].fs

RemoveFolderContents(f, folderPath, patterns, cwd) ==
  IF Exists(f, Resolve(folderPath, cwd))
  THEN DeleteLoop(f, folderPath, FilesToDelete(f, folderPath, patterns, cwd), cwd)
  ELSE f

\* A variant of resetWorkspace that leaves the PDFs folder alone.
ResetWorkspaceKeepsFolder(f, folderPath, cwd) ==
  RemoveFolderContents(f, folderPath,
    <<Wild("*.json*"), Wild("*.pdf"), Wild("*.zip")>>, cwd)

\* A variant of resetWorkspace that takes the marker with the rest.
ResetWorkspaceAndMarker(f, folderPath, cwd) ==
  RemoveFolderContents(f, folderPath,
    <<Literal([abs |-> FALSE, segs |-> <<PdfFolderName>>]),
      Literal([abs |-> FALSE, segs |-> <<LOCK_FILE_NAME>>]),
      Wild("*.json*"), Wild("*.pdf"), Wild("*.zip")>>, cwd)

\* resetWorkspace: "*.pdf" and "*.zip" match the merged document and the
\* archive of the root folder.
ResetWorkspace(f, folderPath, cwd) ==
  RemoveFolderContents(f, folderPath,
    <<Literal([abs |-> FALSE, segs |-> <<PdfFolderName>>]),
      Wild("*.json*"), Wild("*.pdf"), Wild("*.zip")>>, cwd)

\* ------------------------------------------------------------------ state
VARIABLES
  fs,            \* the output directory
  pc,            \* where the run stands; "idle" when no process runs
  mode,          \* operation_mode of the run
  newerOnly,     \* newer_only of the run
  fallback,      \* doChangesWithFiles found no list file and runs doListingWithFiles
  invocation,    \* how the run names the output directory (drawn where it matters)
  monitorLen,    \* length of the monitoring callback, once removeFolderContents read it
  articlesList,  \* what doListingOnly returned
  changesReport, \* what doListingWithChanges returned
  queue,         \* articleNumbers still to be rendered by fetchArticles
  clearQueue,    \* files the unawaited removeFolderContents has yet to delete
  startList,     \* history: file_list.json when the run started
  startPdfs,     \* history: the PDFs folder when the run started
  fetchFailed,   \* history: the Table API call of this run failed
  rendered,      \* history: numbers whose render succeeded in this run
  failed,        \* history: numbers whose render failed in this run
  status,        \* what the promise of mainExec resolved to, once it has
  interrupted,   \* history: the run before this one was killed
  input,         \* the command line and the configuration file of the run
  finalInputData, \* the merged settings of the run
  filter,        \* the filter getArticlesList is called with
  query,         \* the sysparm_query getArticlesList built from it
  argValues,     \* what getArguments returned, when it is called alone
  processes      \* where each of two concurrent processes stands, when two are started

callVars == <<filter, query, argValues, processes>>

configVars == <<input, finalInputData, callVars>>

vars ==
  <<fs, pc, mode, newerOnly, fallback, invocation, monitorLen, articlesList,
    changesReport, queue, clearQueue, startList, startPdfs, fetchFailed,
    rendered, failed, status, interrupted, configVars>>

\* The promise of mainExec: pending, or resolved to a status; a promise
\* keeps the first value it is resolved with.
Pending == {}
Resolved(code) == {code}
Resolve1(s, code) == IF s = Pending THEN Resolved(code) ELSE s

\* The settings are not looked at outside the reading of the configuration.
NoInput == {}
NoSettings == {}
NoFilter == {}
NoQuery == {}
NotParsed == {}
NoProcesses == <<>>
NoCall ==
  /\ filter = NoFilter /\ query = NoQuery /\ argValues = NotParsed
  /\ processes = NoProcesses
NotInterrupted == {}

Modes == {"list", "list_changes", "list_files", "list_changes_files"}

\* An operation_mode getConfigData lets through and the switch of mainExec
\* has no case for.
UnhandledModes == {"list_changes_files_delta"}

\* The storage_mode values getConfigData lets through.
StorageModes == {"files", "archived_files", "single_file", "single_archived_file"}

\* The monitoring callback is passed where removeFolderContents expects its
\* patterns, and only its length is read: 0 for the default function () {}
\* used when the caller gives none, 1 for the (info) => ... of index.js.
MonitorLens == {0, 1}

NoRun ==
  /\ mode = "none" /\ newerOnly = FALSE /\ fallback = FALSE
  /\ invocation = NoInvocation /\ monitorLen = NotRead
  /\ articlesList = Undefined /\ changesReport = Null
  /\ queue = <<>> /\ clearQueue = {}
  /\ startList = NoFile /\ startPdfs = {} /\ fetchFailed = FALSE
  /\ rendered = {} /\ failed = {}
  /\ status = Pending

Init ==
  /\ fs = EmptyDir
  /\ pc = "idle"
  /\ NoRun
  /\ interrupted = NotInterrupted
  /\ input = NoInput /\ finalInputData = NoSettings
  /\ NoCall

\* What the operation under way does once the snapshot fetch has returned.
AfterFetch ==
  IF mode = "list" THEN "storage"
  ELSE IF mode = "list_files" \/ fallback THEN "mkdir"
  ELSE "diff"

\* ---------------------------------------------------------------- session
\* A variant of the check that lets a session be opened over the marker.
CanAlwaysOpenSession(f) == TRUE

\* canOpenSession: the marker is not there
CanOpenSession(f) == ~Exists(f, OnDisk(LOCK_FILE_NAME))

\* openSession: throws when the marker is there, writes it otherwise
OpenSession(f) ==
  IF Exists(f, OnDisk(LOCK_FILE_NAME))
  THEN [fs |-> f, thrown |-> TRUE]
  ELSE [fs |-> [f EXCEPT !.lock = TRUE], thrown |-> FALSE]

\* A variant of closeSession that leaves the marker.
SessionLeftOpen(f) == f

\* closeSession: the marker is deleted when it is there
ClosedSession(f) ==
  IF Exists(f, OnDisk(LOCK_FILE_NAME)) THEN Remove(f, OnDisk(LOCK_FILE_NAME)) ELSE f

\* A variant in which a killed process still releases its session.
KilledReleases(f) == ClosedSession(f)

\* What a killed process leaves of the output directory: the program
\* installs no signal handler, closeSession is reached through the finally
\* of mainExec alone.
Killed(f) == f

\* ---------------------------------------------------------------- actions
\* mainExec up to the switch: canOpenSession, openSession (the marker is
\* written), ensureSetup (the PDFs folder is created when missing).
\* newer_only reaches doChangesWithFiles alone.  The default branch of the
\* switch resolves to 2 and returns, to the finally.
MainExec(m, no) ==
  /\ pc = "idle"
  /\ CanOpenSession(fs)
  /\ m = "list_changes_files" \/ no = FALSE
  /\ fs' = [OpenSession(fs).fs EXCEPT !.pdfDir = TRUE]
  /\ mode' = m
  /\ newerOnly' = no
  /\ startList' = fs.list
  /\ startPdfs' = fs.pdfs
  /\ pc' = CASE m = "list" -> "reset"
             [] m = "list_files" -> "reset"
             [] m = "list_changes" -> "rotate"
             [] m = "list_changes_files" -> "changes_files"
             [] OTHER -> "close"
  /\ status' = IF m \in Modes THEN Pending ELSE Resolved(2)
  /\ UNCHANGED <<fallback, invocation, monitorLen, articlesList, changesReport,
                 queue, clearQueue, fetchFailed, rendered, failed,
                 interrupted, configVars>>

\* A variant of the test that never takes the list file for missing.
ListNeverMissing(f) == FALSE

\* !fs.existsSync(listFilePath)
ListMissing(f) == ~Exists(f, OnDisk(ListFileName))

\* doChangesWithFiles, its first test: without a list file it hands over to
\* doListingWithFiles and returns.
DoChangesWithFiles ==
  /\ pc = "changes_files"
  /\ IF ListMissing(fs)
     THEN fallback' = TRUE /\ pc' = "reset"
     ELSE fallback' = FALSE /\ pc' = "rotate"
  /\ UNCHANGED <<fs, mode, newerOnly, invocation, monitorLen, articlesList,
                 changesReport, queue, clearQueue, startList, startPdfs,
                 fetchFailed, rendered, failed,
                 status, interrupted, configVars>>

\* doListingOnly, first half: resetWorkspace.  The patterns are relative, so
\* the result is the same however the run names the output directory.
DoListingOnly ==
  /\ pc = "reset"
  /\ fs' = ResetWorkspace(fs, Documented.dir, Documented.cwd)
  /\ pc' = "fetch"
  /\ UNCHANGED <<mode, newerOnly, fallback, invocation, monitorLen, articlesList,
                 changesReport, queue, clearQueue, startList, startPdfs,
                 fetchFailed, rendered, failed,
                 status, interrupted, configVars>>

\* getArticlesList, the Table API answers: the records are written to the
\* list file and returned.
GetArticlesList(answer) ==
  /\ pc = "fetch"
  /\ fs' = [fs EXCEPT !.list = File(answer)]
  /\ articlesList' = File(answer)
  /\ pc' = AfterFetch
  /\ UNCHANGED <<mode, newerOnly, fallback, invocation, monitorLen, changesReport,
                 queue, clearQueue, startList, startPdfs, fetchFailed, rendered,
                 failed,
                 status, interrupted, configVars>>

\* getArticlesList, the call fails: the catch reports it, nothing is written
\* and undefined is returned.
GetArticlesListFails ==
  /\ pc = "fetch"
  /\ articlesList' = Undefined
  /\ fetchFailed' = TRUE
  /\ pc' = AfterFetch
  /\ UNCHANGED <<fs, mode, newerOnly, fallback, invocation, monitorLen,
                 changesReport, queue, clearQueue, startList, startPdfs, rendered,
                 failed,
                 status, interrupted, configVars>>

\* doListingWithFiles, steps 2 and 3: the PDFs folder is created when
\* missing; articlesList.map throws on undefined and the catch ends the
\* operation; otherwise fetchArticles is called with resetTarget false.
DoListingWithFiles ==
  /\ pc = "mkdir"
  /\ fs' = [fs EXCEPT !.pdfDir = TRUE]
  /\ IF articlesList = Undefined
     THEN queue' = <<>> /\ pc' = "storage"
     ELSE queue' = NumbersOf(Content(articlesList)) /\ pc' = "login"
  /\ UNCHANGED <<mode, newerOnly, fallback, invocation, monitorLen, articlesList,
                 changesReport, clearQueue, startList, startPdfs, fetchFailed,
                 rendered, failed,
                 status, interrupted, configVars>>

\* A variant of the rotation that leaves both files as they are.
NotRotated(f) == f

\* fs.renameSync(listFilePath, oldListFilePath)
Rotated(f) == [f EXCEPT !.old = f.list, !.list = NoFile]

\* doListingWithChanges, up to the fetch: without a list file it returns
\* null; otherwise the list file is renamed to <list>.old.
DoListingWithChanges ==
  /\ pc = "rotate"
  /\ IF ListMissing(fs)
     THEN /\ changesReport' = Null
          /\ pc' = IF mode = "list_changes" THEN "storage" ELSE "apply"
          /\ fs' = fs
     ELSE /\ fs' = Rotated(fs)
          /\ pc' = "fetch"
          /\ changesReport' = changesReport
  /\ UNCHANGED <<mode, newerOnly, fallback, invocation, monitorLen, articlesList,
                 queue, clearQueue, startList, startPdfs, fetchFailed, rendered,
                 failed,
                 status, interrupted, configVars>>

\* getKBChanges: both lists are read (a missing file throws; the catch
\* returns null and writes nothing), the changes are written and returned.
GetKBChanges ==
  /\ pc = "diff"
  /\ IF fs.list = NoFile \/ fs.old = NoFile
     THEN changesReport' = Null /\ fs' = fs
     ELSE LET changes == Changes(Content(fs.list), Content(fs.old))
          IN /\ changesReport' = File(changes)
             /\ fs' = [fs EXCEPT !.changes = File(changes)]
  /\ pc' = IF mode = "list_changes" THEN "storage" ELSE "apply"
  /\ UNCHANGED <<mode, newerOnly, fallback, invocation, monitorLen, articlesList,
                 queue, clearQueue, startList, startPdfs, fetchFailed, rendered,
                 failed,
                 status, interrupted, configVars>>

\* removals.map((articleNumber) => path.join(pdfHome, `${articleNumber}.pdf`))
Removals(report, pdfHome) ==
  LET nums == report.removed \o report.updated
  IN [i \in 1..Len(nums) |->
        Literal(PathJoin(pdfHome, [abs |-> FALSE, segs |-> <<PdfSeg(nums[i])>>]))]

\* A variant that puts the added numbers first.
AddedBeforeUpdated(report) == report.added \o report.updated

\* [].concat(changes.updated, changes.added)
ArticlesToDownload(report) == report.updated \o report.added

\* doChangesWithFiles, once the report is there: unless newerOnly, the files
\* of the removed and updated articles are handed to removeFolderContents;
\* then fetchArticles is called for the updated and added ones, if any.
\* How the run names the output directory is drawn here, where it first
\* makes a difference, and only when removeFolderContents is called.
ApplyChanges(inv) ==
  /\ pc = "apply"
  /\ IF changesReport = Null
     THEN /\ inv = Documented
          /\ pc' = "storage"
          /\ UNCHANGED <<fs, invocation, queue,
                 status, interrupted, configVars>>
     ELSE LET pdfHome == PathJoin(inv.dir, [abs |-> FALSE, segs |-> <<PdfFolderName>>])
              report == Content(changesReport)
              removals == Removals(report, pdfHome)
              deletes == ~newerOnly /\ Len(removals) > 0
          IN /\ deletes \/ inv = Documented
             /\ invocation' = IF deletes THEN inv ELSE invocation
             /\ fs' = IF deletes
                      THEN RemoveFolderContents(fs, inv.dir, removals, inv.cwd)
                      ELSE fs
             /\ queue' = ArticlesToDownload(report)
             /\ pc' = IF Len(ArticlesToDownload(report)) > 0
                      THEN "login" ELSE "storage"
  /\ UNCHANGED <<mode, newerOnly, fallback, monitorLen, articlesList,
                 changesReport, clearQueue, startList, startPdfs, fetchFailed,
                 rendered, failed,
                 status, interrupted, configVars>>

\* A variant in which the fallback to doListingWithFiles passes newerOnly on.
ResetTargetInFallback == mode = "list_changes_files" /\ newerOnly

\* resetTarget as doListingWithFiles (false) and doChangesWithFiles
\* (newerOnly) pass it to fetchArticles
ResetTarget == mode = "list_changes_files" /\ ~fallback /\ newerOnly

\* A variant in which the folder is cleared whatever the callback declares.
ClearsAnyway(len) == TRUE

\* removeFolderContents, "patterns && patterns.length > 0" read on the
\* callback it was given for its patterns: with a declared parameter the
\* branch of the patterns is taken, patterns.filter throws and the catch
\* ends the call silently; with none, everything readdir lists is deleted.
ClearsWholeFolder(len) == ~(len > 0)

\* fetchArticles up to the loop: the browser is launched and logs in; with
\* resetTarget, removeFolderContents(targetDir, $m) is started and not
\* awaited.
FetchArticles(len) ==
  /\ pc = "login"
  /\ len = 0 \/ ResetTarget   \* without resetTarget the callback is not read
  /\ monitorLen' = IF ResetTarget THEN File(len) ELSE monitorLen
  /\ clearQueue' = IF ResetTarget /\ ClearsWholeFolder(len) THEN fs.pdfs ELSE {}
  /\ pc' = "render"
  /\ UNCHANGED <<fs, mode, newerOnly, fallback, invocation, articlesList,
                 changesReport, queue, startList, startPdfs, fetchFailed,
                 rendered, failed,
                 status, interrupted, configVars>>

\* fetchArticles: launching the browser or logging in throws; the catch of
\* the calling operation reports it and the operation ends.
FetchArticlesThrows ==
  /\ pc = "login"
  /\ queue' = <<>>
  /\ pc' = "storage"
  /\ UNCHANGED <<fs, mode, newerOnly, fallback, invocation, monitorLen,
                 articlesList, changesReport, clearQueue, startList, startPdfs,
                 fetchFailed, rendered, failed,
                 status, interrupted, configVars>>

\* One turn of the loop, the article is printed to <targetDir>/<number>.pdf.
RenderArticle ==
  /\ pc = "render"
  /\ queue # <<>>
  /\ Exists(fs, PdfHomeOnDisk)
  /\ fs' = [fs EXCEPT !.pdfs = @ \cup {Head(queue)}]
  /\ rendered' = rendered \cup {Head(queue)}
  /\ queue' = Tail(queue)
  /\ UNCHANGED <<pc, mode, newerOnly, fallback, invocation, monitorLen,
                 articlesList, changesReport, clearQueue, startList, startPdfs,
                 fetchFailed, failed,
                 status, interrupted, configVars>>

\* One turn of the loop, something throws before the file is written: the
\* catch of the loop body reports the number and the loop goes on.
RenderArticleFails ==
  /\ pc = "render"
  /\ queue # <<>>
  /\ failed' = failed \cup {Head(queue)}
  /\ queue' = Tail(queue)
  /\ UNCHANGED <<fs, pc, mode, newerOnly, fallback, invocation, monitorLen,
                 articlesList, changesReport, clearQueue, startList, startPdfs,
                 fetchFailed, rendered,
                 status, interrupted, configVars>>

\* fetchArticles after the loop: the browser is closed, the operation ends.
FetchArticlesEnds ==
  /\ pc = "render"
  /\ queue = <<>>
  /\ pc' = "storage"
  /\ UNCHANGED <<fs, mode, newerOnly, fallback, invocation, monitorLen,
                 articlesList, changesReport, queue, clearQueue, startList,
                 startPdfs, fetchFailed, rendered, failed,
                 status, interrupted, configVars>>

\* One turn of the deletion loop of the unawaited removeFolderContents; it
\* runs between the awaits of whatever the process does next.
ClearTarget(n) ==
  /\ n \in clearQueue
  /\ pc \in {"render", "storage", "close", "exit"}
  /\ IF Exists(fs, PdfOnDisk(n))
     THEN fs' = Remove(fs, PdfOnDisk(n)) /\ clearQueue' = clearQueue \ {n}
     ELSE fs' = fs /\ clearQueue' = {}
  /\ UNCHANGED <<pc, mode, newerOnly, fallback, invocation, monitorLen,
                 articlesList, changesReport, queue, startList, startPdfs,
                 fetchFailed, rendered, failed,
                 status, interrupted, configVars>>

\* mainExec after the switch, "Handle storage mode": when the list file is
\* there, archived_files writes the archive (archiveArticles rejects when
\* the archiver reports an error, and the catch of mainExec resolves to 2);
\* single_file writes the merged document when a file of the list is in the
\* PDFs folder (mergeArticles catches what is thrown and writes nothing);
\* any other value has no case.
HandleStorageMode(sm, fails) ==
  /\ pc = "storage"
  /\ fails => sm \in {"archived_files", "single_file"} /\ ~ListMissing(fs)
  /\ IF ListMissing(fs)
     THEN fs' = fs /\ status' = status
     ELSE CASE sm = "archived_files" ->
                 /\ fs' = [fs EXCEPT !.archive = TRUE]
                 /\ status' = IF fails THEN Resolve1(status, 2) ELSE status
            [] sm = "single_file" ->
                 /\ fs' = IF ~fails /\ fs.pdfDir
                              /\ Range(NumbersOf(Content(fs.list))) \cap fs.pdfs # {}
                           THEN [fs EXCEPT !.merged = TRUE]
                           ELSE fs
                 /\ status' = status
            [] OTHER -> fs' = fs /\ status' = status
  /\ pc' = "close"
  /\ UNCHANGED <<mode, newerOnly, fallback, invocation, monitorLen, articlesList,
                 changesReport, queue, clearQueue, startList, startPdfs,
                 fetchFailed, rendered, failed, interrupted, configVars>>

\* finally { closeSession(output_dir) }: the marker is removed; then
\* resolve(0), which settles the promise if nothing did before.
CloseSession ==
  /\ pc = "close"
  /\ fs' = ClosedSession(fs)
  /\ status' = Resolve1(status, 0)
  /\ pc' = "exit"
  /\ UNCHANGED <<mode, newerOnly, fallback, invocation, monitorLen, articlesList,
                 changesReport, queue, clearQueue, startList, startPdfs,
                 fetchFailed, rendered, failed, interrupted, configVars>>

\* The run is over: mainExec has resolved and nothing is pending any more.
RunOver == pc = "exit" /\ clearQueue = {}

\* The process exits; the next run starts from the directory as it is.
Exit ==
  /\ RunOver
  /\ pc' = "idle"
  /\ mode' = "none" /\ newerOnly' = FALSE /\ fallback' = FALSE
  /\ invocation' = NoInvocation /\ monitorLen' = NotRead
  /\ articlesList' = Undefined /\ changesReport' = Null
  /\ queue' = <<>> /\ clearQueue' = {}
  /\ startList' = NoFile /\ startPdfs' = {} /\ fetchFailed' = FALSE
  /\ rendered' = {} /\ failed' = {}
  /\ status' = Pending
  /\ interrupted' = IF mode = "none" THEN interrupted ELSE NotInterrupted
  /\ UNCHANGED <<fs, configVars>>

\* The steps of a run once mainExec has opened the session.
Operation ==
  \/ DoChangesWithFiles
  \/ DoListingOnly
  \/ \E answer \in Snapshots : GetArticlesList(answer)
  \/ GetArticlesListFails
  \/ DoListingWithFiles
  \/ DoListingWithChanges
  \/ GetKBChanges
  \/ \E len \in MonitorLens : FetchArticles(len)
  \/ FetchArticlesThrows
  \/ RenderArticle
  \/ RenderArticleFails
  \/ FetchArticlesEnds
  \/ HandleStorageMode("files", FALSE)
  \/ CloseSession
  \/ Exit

Next ==
  \/ \E m \in Modes \cup UnhandledModes, no \in BOOLEAN : MainExec(m, no)
  \/ Operation
  \/ \E inv \in Invocations : ApplyChanges(inv)
  \/ \E n \in Numbers : ClearTarget(n)

Spec == Init /\ [][Next]_vars

\* ---------------------------------------------------- packaging modes
\* The runs of Spec, with every storage_mode and with packaging that fails.
PackNext ==
  \/ Next
  \/ \E sm \in StorageModes \ {"files"}, fails \in BOOLEAN : HandleStorageMode(sm, fails)

PackSpec == Init /\ [][PackNext]_vars

\* ------------------------------------------------------- killed runs
\* mainExec on a directory that holds the marker: canOpenSession is false,
\* the promise resolves to 2 and nothing else is done.
MainExecRejected ==
  /\ pc = "idle"
  /\ ~CanOpenSession(fs)
  /\ status' = Resolved(2)
  /\ pc' = "exit"
  /\ UNCHANGED <<fs, mode, newerOnly, fallback, invocation, monitorLen,
                 articlesList, changesReport, queue, clearQueue, startList,
                 startPdfs, fetchFailed, rendered, failed, interrupted,
                 configVars>>

\* The process is killed while its session is open.  When the run was a
\* full-mode list_changes_files run over a folder that matched its list,
\* what it had fetched so far is remembered for the run that follows.
Kill ==
  /\ pc \notin {"idle", "exit"}
  /\ fs' = Killed(fs)
  /\ pc' = "idle"
  /\ mode' = "none" /\ newerOnly' = FALSE /\ fallback' = FALSE
  /\ invocation' = NoInvocation /\ monitorLen' = NotRead
  /\ articlesList' = Undefined /\ changesReport' = Null
  /\ queue' = <<>> /\ clearQueue' = {}
  /\ startList' = NoFile /\ startPdfs' = {} /\ fetchFailed' = FALSE
  /\ rendered' = {} /\ failed' = {}
  /\ status' = Pending
  /\ interrupted' =
       IF mode = "list_changes_files" /\ ~newerOnly /\ startList # NoFile
          /\ startPdfs = Range(NumbersOf(Content(startList)))
       THEN File(articlesList)
       ELSE NotInterrupted
  /\ UNCHANGED configVars

\* Someone removes the marker a killed run left.
RemoveMarker ==
  /\ pc = "idle"
  /\ fs.lock
  /\ fs' = [fs EXCEPT !.lock = FALSE]
  /\ UNCHANGED <<pc, mode, newerOnly, fallback, invocation, monitorLen,
                 articlesList, changesReport, queue, clearQueue, startList,
                 startPdfs, fetchFailed, rendered, failed, status, interrupted,
                 configVars>>

\* The runs that are killed and started again: list_files, which fills the
\* folder, and list_changes_files in full mode, on an output directory
\* named by its absolute path.
CrashModes == {"list_files", "list_changes_files"}

CrashNext ==
  \/ \E m \in CrashModes : MainExec(m, FALSE)
  \/ Operation
  \/ ApplyChanges(Documented)
  \/ MainExecRejected
  \/ Kill
  \/ RemoveMarker

CrashSpec == Init /\ [][CrashNext]_vars

\* ------------------------------------------------- runs that repeat
\* list_changes_files in full mode, run after run on an output directory
\* named by its absolute path, when the catalog answers and the browser
\* logs in: of all that may go wrong, only the render of an article does.
RepairNext ==
  \/ MainExec("list_changes_files", FALSE)
  \/ DoChangesWithFiles
  \/ DoListingOnly
  \/ \E answer \in Snapshots : GetArticlesList(answer)
  \/ DoListingWithFiles
  \/ DoListingWithChanges
  \/ GetKBChanges
  \/ ApplyChanges(Documented)
  \/ FetchArticles(0)
  \/ RenderArticle
  \/ RenderArticleFails
  \/ FetchArticlesEnds
  \/ HandleStorageMode("files", FALSE)
  \/ CloseSession
  \/ Exit

RepairSpec == Init /\ [][RepairNext]_vars

\* ------------------------------------------- arguments and profiles
\* mainExec before the session: the command line is parsed, the profiles are
\* read from pdFetch.config, the sources are merged and the result is
\* validated.  An object is a function from its keys to its values; a value
\* is {} for null and {v} otherwise.

\* appArgDefaults of index.js
appArgDefaults == [storage_mode |-> {"files"}, operation_mode |-> {"list_files"}]

\* appArgs of index.js: the names of the payload (the first is the key the
\* value is stored under), whether the payload takes a value, the values it
\* admits ({} for any), and the mandatory flag.
appArgs ==
  << [names |-> <<"output_dir", "od">>, valued |-> TRUE, admits |-> {}, mandatory |-> TRUE],
     [names |-> <<"sn_instance_name", "sni">>, valued |-> TRUE, admits |-> {}, mandatory |-> TRUE],
     [names |-> <<"sn_user_name", "snu">>, valued |-> TRUE, admits |-> {}, mandatory |-> TRUE],
     [names |-> <<"sn_pass", "snp">>, valued |-> TRUE, admits |-> {}, mandatory |-> TRUE],
     [names |-> <<"help", "h">>, valued |-> FALSE, admits |-> {}, mandatory |-> FALSE],
     [names |-> <<"init_config", "ic">>, valued |-> FALSE, admits |-> {}, mandatory |-> FALSE],
     [names |-> <<"config_profile", "cp">>, valued |-> TRUE, admits |-> {}, mandatory |-> FALSE],
     [names |-> <<"sn_query", "snq">>, valued |-> TRUE, admits |-> {}, mandatory |-> FALSE],
     [names |-> <<"storage_mode", "sm">>, valued |-> TRUE,
      admits |-> {"files", "archived_files", "single_file"}, mandatory |-> FALSE],
     [names |-> <<"operation_mode", "om">>, valued |-> TRUE,
      admits |-> {"list", "list_changes", "list_files", "list_changes_files"},
      mandatory |-> FALSE] >>

\* arg.match(payload): "--name=value" against /^--(name|alias)=(...)$/, and
\* "--name" against /^--(name|alias)$/
Matches(entry, token) ==
  /\ token.name \in Range(entry.names)
  /\ entry.valued <=> token.value # {}
  /\ entry.admits = {} \/ token.value \subseteq entry.admits

\* { ...a, ...b }
Spread(a, b) ==
  [k \in DOMAIN a \cup DOMAIN b |-> IF k \in DOMAIN b THEN b[k] ELSE a[k]]

\* An argument of the command line that is the empty string.
EmptyArgument == [name |-> "", value |-> {}]

\* A variant that stores an argument under the name that was typed.
TypedName(entry, token) == token.name

\* argNames.split("|").shift(): the first name of the payload
ArgName(entry, token) == entry.names[1]

\* getArguments: the defaults, then each argument in turn: an empty one is
\* skipped, one that matches no payload ends the call with null, any other is
\* stored under the first name of the first payload it matches, a flag as
\* true.
getArguments(dictionary, defaults, argv) ==
  LET matching(t) == {i \in 1..Len(dictionary) : Matches(dictionary[i], t)}
      first(t) == dictionary[CHOOSE i \in matching(t) : \A j \in matching(t) : i <= j]
      valuesAt[n \in 0..Len(argv)] ==
        IF n = 0 THEN File(IF defaults = Null THEN <<>> ELSE Content(defaults))
        ELSE IF valuesAt[n - 1] = Null THEN Null
        ELSE IF argv[n] = EmptyArgument THEN valuesAt[n - 1]
        ELSE IF matching(argv[n]) = {} THEN Null
        ELSE File(Spread(Content(valuesAt[n - 1]),
                         ArgName(first(argv[n]), argv[n])
                           :> (IF argv[n].value = {} THEN {TRUE} ELSE argv[n].value)))
  IN valuesAt[Len(argv)]

validOperationModes ==
  {"list", "list_changes", "list_files", "list_changes_files",
   "list_changes_files_delta"}

validStorageModes ==
  {"files", "archived_files", "single_file", "single_archived_file"}

\* getConfigData: null when the file has no such profile; else the settings
\* of the profile, an empty string or a mode that is not valid made null.
getConfigData(config, profileName) ==
  IF profileName \notin DOMAIN config \/ config[profileName] = {}
  THEN Null
  ELSE LET settings == Content(config[profileName])
       IN File([key \in DOMAIN settings |->
                  IF settings[key] = "" THEN Null
                  ELSE IF key = "storage_mode" /\ settings[key] \notin validStorageModes
                       THEN Null
                  ELSE IF key = "operation_mode"
                          /\ settings[key] \notin validOperationModes
                       THEN Null
                  ELSE {settings[key]}])

\* mergeData(implicit, explicit, given): three parameters; a fourth argument
\* of a call is bound to nothing.
mergeData(implicit, explicit, given, extra) ==
  Spread(Spread(implicit, explicit), given)

\* getConfigData(...) || {}
OrEmpty(data) == IF data = Null THEN <<>> ELSE Content(data)

\* !finalInputData[argName]: missing, null or empty
Falsy(data, key) == key \notin DOMAIN data \/ data[key] = Null

\* The merged settings of mainExec, from the arguments it parsed.
MergedSettings(in, args) ==
  LET defaultProfileData == OrEmpty(getConfigData(in.config, "default"))
      profileData ==
        IF ~Falsy(args, "config_profile")
        THEN OrEmpty(getConfigData(in.config,
                                   CHOOSE v \in args["config_profile"] : TRUE))
        ELSE <<>>
  IN mergeData(appArgDefaults, defaultProfileData, profileData, args)

\* A variant of the validation that lets everything through.
NeverInvalid(in, data) == FALSE

\* The validation of mainExec: a mandatory argument that is falsy in the
\* merged settings, or an output directory that does not exist.
Invalid(in, data) ==
  \/ \E i \in 1..Len(appArgs) :
       appArgs[i].mandatory /\ Falsy(data, appArgs[i].names[1])
  \/ Falsy(data, "output_dir")
  \/ data["output_dir"] \cap in.dirs = {}

\* The sources of one run, drawn small.  A source gives the output
\* directory, the three ServiceNow credentials together, and the operation
\* mode, each or not; what it gives carries its name, and its operation
\* mode is its own.
Sources == {"args", "work", "default"}

ValueFrom(source, key) ==
  IF key = "operation_mode"
  THEN CASE source = "args" -> "list"
         [] source = "work" -> "list_changes"
         [] OTHER -> "list_changes_files"
  ELSE source

Credentials == {"sn_instance_name", "sn_user_name", "sn_pass"}

Slots == [output_dir : {"absent", "empty", "given"},
          credentials : {"absent", "given"},
          operation_mode : {"absent", "empty", "given"}]

\* The settings object of a profile of pdFetch.config.
ProfileSettings(slots, name) ==
  LET slotOf(key) == IF key \in Credentials THEN slots.credentials ELSE slots[key]
      keys == {key \in {"output_dir", "operation_mode"} \cup Credentials :
                 slotOf(key) # "absent"}
  IN [key \in keys |-> IF slotOf(key) = "empty" THEN "" ELSE ValueFrom(name, key)]

NoProfile == {}
Profiles(name) == {NoProfile} \cup {File(ProfileSettings(sl, name)) : sl \in Slots}

ConfigFiles == {[default |-> d, work |-> w] : d \in Profiles("default"), w \in Profiles("work")}

\* The groups of arguments a command line is made of, short names included.
ArgumentGroups ==
  << <<[name |-> "od", value |-> {ValueFrom("args", "output_dir")}]>>,
     <<[name |-> "sn_instance_name", value |-> {ValueFrom("args", "sn_instance_name")}],
       [name |-> "snu", value |-> {ValueFrom("args", "sn_user_name")}],
       [name |-> "snp", value |-> {ValueFrom("args", "sn_pass")}]>>,
     <<[name |-> "operation_mode", value |-> {ValueFrom("args", "operation_mode")}]>>,
     <<[name |-> "h", value |-> {}]>>,
     <<[name |-> "init_config", value |-> {}]>>,
     <<[name |-> "cp", value |-> {"work"}]>>,
     <<[name |-> "verbose", value |-> {}]>> >>

\* The command line that holds the chosen groups, one after the other.
CommandLine(chosen) ==
  LET line[i \in 0..Len(ArgumentGroups)] ==
        IF i = 0 THEN <<>>
        ELSE line[i - 1] \o (IF i \in chosen THEN ArgumentGroups[i] ELSE <<>>)
  IN line[Len(ArgumentGroups)]

CommandLines == {CommandLine(chosen) : chosen \in SUBSET (1..Len(ArgumentGroups))}

\* The directories that exist, among those the sources name.
Disks == {{}, {"args"}, {"work", "default"}, Sources}

Inputs == [argv : CommandLines, config : ConfigFiles, dirs : Disks]

\* operation_mode of the merged settings, as the switch of mainExec sees it
OperationMode(data) ==
  IF Falsy(data, "operation_mode") THEN "null"
  ELSE CHOOSE v \in data["operation_mode"] : TRUE

\* The file ensureSetup writes for --init_config: the template, with its
\* one sample profile; what the file held is overwritten.
configFileTemplate ==
  [profile_1 |->
     File([sn_instance_name |-> "acme", sn_user_name |-> "john.doe",
           sn_pass |-> "letmein1234", sn_query |-> "",
           output_dir |-> "/path/to/my/acme/folder",
           storage_mode |-> "", operation_mode |-> ""])]

\* A variant of the two tests that looks at init_config first.
InitConfigFirst(args) ==
  IF ~Falsy(args, "init_config") THEN "init_config"
  ELSE IF ~Falsy(args, "help") THEN "help"
  ELSE "none"

\* if (args.help) ... return; if (args.init_config) ... return
EarlyStop(args) ==
  IF ~Falsy(args, "help") THEN "help"
  ELSE IF ~Falsy(args, "init_config") THEN "init_config"
  ELSE "none"

\* mainExec from getArguments to the check of the output directory.
Configure ==
  /\ pc = "start"
  /\ LET in == Content(input)
         args == getArguments(appArgs, Null, in.argv)
     IN IF args = Null
        THEN status' = Resolved(2) /\ pc' = "exit" /\ UNCHANGED <<input, finalInputData>>
        ELSE IF EarlyStop(Content(args)) = "help"
        THEN status' = Resolved(1) /\ pc' = "exit" /\ UNCHANGED <<input, finalInputData>>
        ELSE IF EarlyStop(Content(args)) = "init_config"
        THEN /\ input' = File([in EXCEPT !.config = configFileTemplate])
             /\ status' = Resolved(1) /\ pc' = "exit" /\ UNCHANGED finalInputData
        ELSE LET data == MergedSettings(in, Content(args))
             IN /\ finalInputData' = File(data)
                /\ UNCHANGED input
                /\ IF Invalid(in, data)
                   THEN status' = Resolved(2) /\ pc' = "exit"
                   ELSE status' = Pending /\ pc' = "idle"
  /\ UNCHANGED <<fs, mode, newerOnly, fallback, invocation, monitorLen,
                 articlesList, changesReport, queue, clearQueue, startList,
                 startPdfs, fetchFailed, rendered, failed, interrupted,
                 callVars>>

\* mainExec goes on with the settings it merged.
ConfiguredMainExec ==
  /\ finalInputData # NoSettings
  /\ MainExec(OperationMode(Content(finalInputData)), FALSE)

\* A run on an empty output directory, with any of the inputs.
ConfigInit ==
  /\ fs = EmptyDir
  /\ pc = "start"
  /\ NoRun
  /\ interrupted = NotInterrupted
  /\ input \in {File(in) : in \in Inputs}
  /\ finalInputData = NoSettings
  /\ NoCall

ConfigNext == Configure \/ ConfiguredMainExec

ConfigSpec == ConfigInit /\ [][ConfigNext]_vars

\* ------------------------------------------ the query of getArticlesList
\* A string is the sequence of its characters; the filter is {} when the
\* caller gave none (undefined, or the null of the default) and {string}
\* otherwise.
MaxFilterLen == 4
Characters == {" ", "x", "^"}
Whitespace == {" "}
Strings == UNION {[1..n -> Characters] : n \in 0..MaxFilterLen}
Filters == {NoFilter} \cup {File(str) : str \in Strings}

\* A variant of trim that leaves the string as it is.
Untrimmed(str) == str

\* String.prototype.trim
Trim(str) ==
  LET kept == {i \in 1..Len(str) : str[i] \notin Whitespace}
  IN IF kept = {} THEN <<>>
     ELSE SubSeq(str, CHOOSE i \in kept : \A j \in kept : i <= j,
                      CHOOSE i \in kept : \A j \in kept : j <= i)

\* (filter || "")
OrEmptyString(f) == IF f = NoFilter THEN <<>> ELSE Content(f)

\* The fixed part of the query, one piece.
Published == <<"workflow_state=published">>

\* const query = `workflow_state=published${filter ? "^" + filter : ""}`
\* with filter = (filter || "").trim()
Query(f) ==
  LET trimmed == Trim(OrEmptyString(f))
  IN Published \o (IF trimmed # <<>> THEN <<"^">> \o trimmed ELSE <<>>)

\* getArticlesList up to the call of the Table API.
GetArticlesListQuery ==
  /\ pc = "query"
  /\ query' = File(Query(filter))
  /\ pc' = "asked"
  /\ UNCHANGED <<fs, mode, newerOnly, fallback, invocation, monitorLen,
                 articlesList, changesReport, queue, clearQueue, startList,
                 startPdfs, fetchFailed, rendered, failed, status, interrupted,
                 input, finalInputData, filter, argValues, processes>>

QueryInit ==
  /\ fs = [EmptyDir EXCEPT !.lock = TRUE]
  /\ pc = "query"
  /\ NoRun
  /\ interrupted = NotInterrupted
  /\ input = NoInput /\ finalInputData = NoSettings
  /\ filter \in Filters /\ query = NoQuery /\ argValues = NotParsed
  /\ processes = NoProcesses

QueryNext == GetArticlesListQuery

QuerySpec == QueryInit /\ [][QueryNext]_vars

\* ------------------------------------------------- getArguments alone
\* getArguments called with the dictionary of the program, with defaults or
\* without, on command lines of up to MaxArguments arguments: long and short
\* names, a flag, a value the payload does not admit, a name no payload has,
\* and the empty string.
MaxArguments == 3

Arguments ==
  { [name |-> "output_dir", value |-> {"a"}],
    [name |-> "od", value |-> {"b"}],
    [name |-> "h", value |-> {}],
    [name |-> "help", value |-> {}],
    [name |-> "om", value |-> {"list"}],
    [name |-> "om", value |-> {"bogus"}],
    [name |-> "verbose", value |-> {}],
    EmptyArgument }

ArgumentLists == UNION {[1..n -> Arguments] : n \in 0..MaxArguments}

\* The defaults of a call: null, as mainExec passes, or an object.
DefaultsOfCalls ==
  {Null, File(<<>>),
   File([output_dir |-> {"d"}, storage_mode |-> {"files"}])}

GetArguments ==
  /\ pc = "args"
  /\ LET in == Content(input)
     IN argValues' = File(getArguments(appArgs, in.defaults, in.argv))
  /\ pc' = "parsed"
  /\ UNCHANGED <<fs, mode, newerOnly, fallback, invocation, monitorLen,
                 articlesList, changesReport, queue, clearQueue, startList,
                 startPdfs, fetchFailed, rendered, failed, status, interrupted,
                 input, finalInputData, filter, query, processes>>

ArgsInit ==
  /\ fs = EmptyDir
  /\ pc = "args"
  /\ NoRun
  /\ interrupted = NotInterrupted
  /\ input \in {File([argv |-> line, defaults |-> defaults]) :
                  line \in ArgumentLists, defaults \in DefaultsOfCalls}
  /\ finalInputData = NoSettings
  /\ NoCall

ArgsNext == GetArguments

ArgsSpec == ArgsInit /\ [][ArgsNext]_vars

\* ------------------------------------------ two processes, one directory
\* Two processes are started in list mode on the same output directory.
\* Each goes through mainExec on its own: canOpenSession, then openSession
\* (an existence check, then the write of the marker), then the operation
\* (doListingOnly: resetWorkspace, getArticlesList), then the finally with
\* closeSession.  The file system calls are synchronous, so each of them is
\* one step; the steps of the two processes interleave freely.
Processes == {1, 2}

\* The catalog answers the two processes may get.
RaceAnswers == {s \in Snapshots : Len(s) <= 1}

OperationBody == {"reset", "fetch"}

Step(p, from, to) ==
  /\ pc = "race"
  /\ processes[p] = from
  /\ processes' = [processes EXCEPT ![p] = to]
  /\ UNCHANGED <<pc, mode, newerOnly, fallback, invocation, monitorLen,
                 articlesList, changesReport, queue, clearQueue, startList,
                 startPdfs, fetchFailed, rendered, failed, status, interrupted,
                 input, finalInputData, filter, query, argValues>>

\* if (!canOpenSession(output_dir)) { resolve(2); return; }
RaceCanOpenSession(p) ==
  /\ Step(p, "start", IF CanOpenSession(fs) THEN "can_open" ELSE "refused")
  /\ UNCHANGED fs

\* openSession, the existence check: the throw is outside the try of
\* mainExec, the finally is not reached.
RaceOpenSessionCheck(p) ==
  /\ Step(p, "can_open", IF OpenSession(fs).thrown THEN "thrown" ELSE "write")
  /\ UNCHANGED fs

\* openSession, fs.writeFileSync(lockFilePath, uuidv4(), "utf8"): the file
\* is written whether it is there or not; then ensureSetup.
RaceOpenSessionWrite(p) ==
  /\ Step(p, "write", "reset")
  /\ fs' = [fs EXCEPT !.lock = TRUE, !.pdfDir = TRUE]

\* doListingOnly: resetWorkspace
RaceResetWorkspace(p) ==
  /\ Step(p, "reset", "fetch")
  /\ fs' = ResetWorkspace(fs, Documented.dir, Documented.cwd)

\* doListingOnly: getArticlesList writes the list
RaceGetArticlesList(p, answer) ==
  /\ Step(p, "fetch", "close")
  /\ fs' = [fs EXCEPT !.list = File(answer)]

\* finally { closeSession(output_dir); }
RaceCloseSession(p) ==
  /\ Step(p, "close", "exit")
  /\ fs' = ClosedSession(fs)

\* The promise of mainExec where a process stands: resolve(2) after
\* canOpenSession refused, resolve(0) after the finally; the throw of
\* openSession leaves the executor before any resolve, and nothing runs in
\* the process after it.
StatusAt(position) ==
  CASE position = "refused" -> Resolved(2)
    [] position = "exit" -> Resolved(0)
    [] OTHER -> Pending

\* The positions a process does not leave.
Ended == {"refused", "thrown", "exit"}

RaceInit ==
  /\ fs = EmptyDir
  /\ pc = "race"
  /\ NoRun
  /\ interrupted = NotInterrupted
  /\ input = NoInput /\ finalInputData = NoSettings
  /\ filter = NoFilter /\ query = NoQuery /\ argValues = NotParsed
  /\ processes = [p \in Processes |-> "start"]

RaceNext ==
  \E p \in Processes :
    \/ RaceCanOpenSession(p)
    \/ RaceOpenSessionCheck(p)
    \/ RaceOpenSessionWrite(p)
    \/ RaceResetWorkspace(p)
    \/ \E answer \in RaceAnswers : RaceGetArticlesList(p, answer)
    \/ RaceCloseSession(p)

RaceSpec == RaceInit /\ [][RaceNext]_vars

\* ------------------------------------------------- getKBChanges alone
\* doListingWithChanges at the call of getKBChanges, with any two lists of
\* up to MaxDiffSysId articles in the list file and in the .old file.
DiffInit ==
  /\ fs \in {[list |-> File(new), old |-> File(old), changes |-> NoFile,
              pdfDir |-> TRUE, pdfs |-> {}, lock |-> TRUE,
              archive |-> FALSE, merged |-> FALSE] :
             new \in DiffSnapshots, old \in DiffSnapshots}
  /\ pc = "diff"
  /\ mode = "list_changes" /\ newerOnly = FALSE /\ fallback = FALSE
  /\ invocation = NoInvocation /\ monitorLen = NotRead
  /\ articlesList = fs.list /\ changesReport = Null
  /\ queue = <<>> /\ clearQueue = {}
  /\ startList = fs.old /\ startPdfs = {} /\ fetchFailed = FALSE
  /\ rendered = {} /\ failed = {}
  /\ status = Pending /\ interrupted = NotInterrupted
  /\ input = NoInput /\ finalInputData = NoSettings
  /\ NoCall

DiffNext == GetKBChanges

DiffSpec == DiffInit /\ [][DiffNext]_vars

\* ================================================================ claims
\* Shorthands for the runs and values the claims speak of.
NumberSet(file) == Range(NumbersOf(Content(file)))
Report == Content(changesReport)
Count(seq, n) == Cardinality({i \in 1..Len(seq) : seq[i] = n})

\* A list_changes_files run that found a list file, in full mode and in
\* newer-only mode.
FullRun == mode = "list_changes_files" /\ ~newerOnly /\ startList # NoFile
NewerRun == mode = "list_changes_files" /\ newerOnly /\ startList # NoFile

\* The records of the new list whose sys_id the old list lacks, those whose
\* sys_id it has under another version, and the records of the old list
\* whose sys_id the new list lacks.
NewRecords(new, old) ==
  {r \in Range(new) : \A o \in Range(old) : o.sys_id # r.sys_id}
ChangedRecords(new, old) ==
  {r \in Range(new) : \E o \in Range(old) : o.sys_id = r.sys_id /\ o.version # r.version}
GoneRecords(new, old) ==
  {o \in Range(old) : \A r \in Range(new) : r.sys_id # o.sys_id}

\* A list of numbers holds one entry for each record of a set.
Lists(seq, records) ==
  \A n \in Numbers : Count(seq, n) = Cardinality({r \in records : r.number = n})

IsDiff(report, new, old) ==
  /\ Lists(report.added, NewRecords(new, old))
  /\ Lists(report.updated, ChangedRecords(new, old))
  /\ Lists(report.removed, GoneRecords(new, old))

\* C1 (as claimed): after a full-mode list_changes_files run that started
\* with one file per record of the previous list and in which every render
\* succeeded, the PDFs folder holds exactly the numbers of the new list.
C1_Convergence ==
  (/\ RunOver /\ FullRun /\ changesReport # Null
   /\ startPdfs = NumberSet(startList)
   /\ failed = {}
   /\ Range(ArticlesToDownload(Report)) \subseteq rendered)
  => fs.pdfs = NumberSet(fs.list)

\* C2: getKBChanges lists the number of a record under added iff its sys_id
\* is only in the new list, under updated iff its sys_id is in both lists
\* with different versions, under removed iff its sys_id is only in the old
\* list, and lists nothing for a record that is in both with equal versions.
C2_DiffClassification ==
  changesReport # Null => IsDiff(Report, Content(fs.list), Content(fs.old))

C2_Witness ==
  /\ changesReport # Null
  /\ Report.added # <<>> /\ Report.updated # <<>> /\ Report.removed # <<>>

\* C3 (as claimed): the added, updated and removed lists of numbers are
\* pairwise disjoint, also when two sys_ids share a number.
C3_NumberListsDisjoint ==
  changesReport # Null =>
    /\ Range(Report.added) \cap Range(Report.updated) = {}
    /\ Range(Report.added) \cap Range(Report.removed) = {}
    /\ Range(Report.updated) \cap Range(Report.removed) = {}

\* No number is carried by two different sys_ids of the two lists.
NumbersIdentify(new, old) ==
  \A r, q \in Range(new) \cup Range(old) : r.number = q.number => r.sys_id = q.sys_id

\* C3 (amended): every sys_id that differs between the two lists has exactly
\* one entry in the three lists taken together, and the lists of numbers are
\* pairwise disjoint when no number is carried by two different sys_ids.
C3_IdentitiesDisjoint ==
  changesReport # Null =>
    LET new == Content(fs.list)
        old == Content(fs.old)
        differing == {r.sys_id : r \in NewRecords(new, old) \cup ChangedRecords(new, old)
                                        \cup GoneRecords(new, old)}
    IN /\ Len(Report.added) + Len(Report.updated) + Len(Report.removed)
            = Cardinality(differing)
       /\ NumbersIdentify(new, old) => C3_NumberListsDisjoint

C3_Witness ==
  /\ changesReport # Null
  /\ NumbersIdentify(Content(fs.list), Content(fs.old))
  /\ Report.added # <<>> /\ Report.removed # <<>>
  /\ Len(Report.added) + Len(Report.updated) + Len(Report.removed) = 2

\* C4 (as claimed): when the snapshot fetch of a run fails, the list file
\* that existed before the run is still there, unchanged, after the run.
C4_FetchFailureKeepsList ==
  (RunOver /\ fetchFailed /\ startList # NoFile) => fs.list = startList

\* C5 (as claimed): after a newer-only run that produced a report, every
\* file of the PDFs folder is named for an added or updated number of that
\* report and was written by that run.
C5_NewerOnlyContainment ==
  (RunOver /\ NewerRun /\ changesReport # Null) =>
    /\ fs.pdfs \subseteq Range(Report.added) \cup Range(Report.updated)
    /\ fs.pdfs \subseteq rendered

\* C6 (as claimed): in a full-mode run that produced a report, from the
\* moment the deletion step is over a file named for an updated or removed
\* number is in the PDFs folder only if this run rendered it; so a failed
\* re-render leaves no file.
C6_PreemptiveRemoval ==
  (FullRun /\ changesReport # Null /\ pc \in {"login", "render", "storage", "close", "exit"}) =>
    \A n \in Range(Report.removed) \cup Range(Report.updated) :
      n \in fs.pdfs => n \in rendered

C8_ListChangesTerminal ==
  (RunOver /\ mode = "list_changes" /\ startList # NoFile /\ ~fetchFailed) =>
    /\ articlesList # Undefined
    /\ fs.list = articlesList
    /\ fs.old = startList
    /\ fs.changes # NoFile
    /\ fs.changes = changesReport
    /\ IsDiff(Content(fs.changes), Content(articlesList), Content(startList))

C8_Witness ==
  /\ RunOver /\ mode = "list_changes" /\ startList # NoFile /\ ~fetchFailed
  /\ startList # articlesList
  /\ Content(fs.changes).added # <<>>
  /\ Content(fs.changes).removed # <<>>

\* C9: doListingWithChanges without a list file returns null and changes
\* nothing in the output directory: no rename, no fetch, no write, no
\* deletion.
C9_FirstRunListChanges ==
  [][(pc = "rotate" /\ mode = "list_changes" /\ fs.list = NoFile) =>
       (fs' = fs /\ changesReport' = Null /\ articlesList' = Undefined
        /\ ~fetchFailed' /\ pc' = "storage")]_vars

C9_Witness ==
  /\ pc = "storage" /\ mode = "list_changes" /\ startList = NoFile
  /\ changesReport = Null
  /\ fs.old # NoFile /\ fs.changes # NoFile /\ fs.pdfs # {}

\* What a list_files run leaves, given what the fetch returned and which
\* renders succeeded: the fetched list alone beside the PDFs folder, and in
\* the folder the files rendered by the run.
ListFilesOutcome ==
  [list |-> articlesList, old |-> NoFile, changes |-> NoFile,
   pdfDir |-> TRUE, pdfs |-> rendered, lock |-> FALSE,
   archive |-> FALSE, merged |-> FALSE]

\* C10: a list_changes_files run without a list file, with either value of
\* newerOnly, leaves the output directory as a list_files run with the same
\* fetched snapshot and the same render outcomes leaves it, and tries to
\* render the same articles.
C10_FirstRunChangesFiles ==
  (RunOver /\ (mode = "list_files" \/ (mode = "list_changes_files" /\ startList = NoFile))) =>
    /\ fs = ListFilesOutcome
    /\ changesReport = Null
    /\ monitorLen = NotRead
    /\ rendered \cup failed \in
         (IF articlesList = Undefined THEN {{}} ELSE {{}, NumberSet(articlesList)})

C10_Witness ==
  /\ RunOver /\ mode = "list_changes_files" /\ newerOnly /\ startList = NoFile
  /\ startPdfs # {} /\ startPdfs # rendered
  /\ rendered # {} /\ failed # {}

\* The numbers fetchArticles was given in the run: those of the fetched list
\* for doListingWithFiles, the updated and added ones for doChangesWithFiles.
Batch ==
  IF mode = "list_files" \/ fallback
  THEN NumberSet(articlesList)
  ELSE Range(ArticlesToDownload(Report))

\* C11 (as claimed): after a run in which the render of an article failed,
\* every article of the batch was attempted, the file of every article that
\* was rendered is in the PDFs folder, and the list file and the report file
\* are as they were written before the renders.
C11_PartialFailureIsolation ==
  (RunOver /\ failed # {}) =>
    /\ rendered \cup failed = Batch
    /\ rendered \subseteq fs.pdfs
    /\ fs.list = articlesList
    /\ changesReport # Null => fs.changes = changesReport

\* C12: a run started on a directory that holds the marker resolves to 2 and
\* leaves the directory, the marker included, as it is, up to its exit;
\* openSession on such a directory throws and writes nothing.
C12_LockExclusivity ==
  [][/\ (pc = "idle" /\ fs.lock /\ pc' # "idle") =>
          /\ fs' = fs /\ fs'.lock
          /\ status' = Resolved(2) /\ pc' = "exit"
          /\ OpenSession(fs).thrown /\ OpenSession(fs).fs = fs
     /\ (pc = "exit" /\ mode = "none") => fs' = fs]_vars

C12_Witness ==
  /\ pc = "exit" /\ mode = "none" /\ status = Resolved(2)
  /\ fs.lock /\ fs.list # NoFile /\ fs.pdfs # {}

\* C13: a run that opened the session and was not killed ends with the
\* marker absent and its promise settled, whatever happened in between: an
\* unhandled operation mode, a failed fetch, failed renders, packaging that
\* failed.
C13_LockReleased ==
  pc = "exit" => ~Exists(fs, OnDisk(LOCK_FILE_NAME)) /\ status # Pending

C13_Witness ==
  /\ pc = "exit" /\ mode = "list_changes_files" /\ failed # {}
  /\ status = Resolved(2) /\ fs.archive
  /\ ~Exists(fs, OnDisk(LOCK_FILE_NAME))

\* C14: a kill leaves the directory as it is, marker included; while no run
\* is under way and the marker is there, the program changes nothing and
\* every run it starts resolves to 2, the marker going away only by a step
\* that is not the program's; without the marker a run that starts opens
\* its session.
C14_NoStaleLockRecovery ==
  [][/\ (pc \notin {"idle", "exit"} /\ pc' = "idle") => (fs' = fs /\ fs'.lock)
     /\ (pc = "idle" /\ fs.lock) =>
          IF pc' = "idle"
          THEN fs' = fs \/ fs' = [fs EXCEPT !.lock = FALSE]
          ELSE fs' = fs /\ status' = Resolved(2) /\ pc' = "exit"
     /\ (pc = "idle" /\ ~fs.lock /\ pc' # "idle") =>
          (fs'.lock /\ pc' # "exit" /\ status' = Pending)]_vars

C14_Witness ==
  /\ interrupted # NotInterrupted
  /\ pc = "fetch" /\ mode = "list_changes_files" /\ fs.lock

\* C15 (as claimed): a run that got to its operation resolves to 2 when the
\* operation mode is unhandled or the snapshot fetch failed, and to 0 only
\* when the operation completed without failure.
C15_ExitStatus ==
  RunOver =>
    /\ status \in {Resolved(0), Resolved(2)}
    /\ (mode \in UnhandledModes \/ fetchFailed) => status = Resolved(2)
    /\ status = Resolved(0) => ~fetchFailed

\* C18 (as claimed): when a full-mode list_changes_files run over a folder
\* that matched its list was killed, and the next run, made once the marker
\* was removed, is a full-mode list_changes_files run that fetches what the
\* killed run had fetched (anything, if it had fetched nothing) and renders
\* all it is given, the PDFs folder ends with exactly the numbers of the
\* list.
C18_RerunAfterInterruption ==
  (/\ RunOver /\ mode = "list_changes_files" /\ ~newerOnly
   /\ interrupted # NotInterrupted
   /\ articlesList # Undefined
   /\ Content(interrupted) # Undefined => articlesList = Content(interrupted)
   /\ changesReport # Null \/ fallback
   /\ failed = {} /\ Batch \subseteq rendered)
  => fs.pdfs = NumberSet(fs.list)

\* The numbers of the records of a list that are in a set, in list order.
InOrderOf(list, records) ==
  NumbersOf(SelectSeq(list, LAMBDA r : r \in records))

\* C19: added and updated hold their numbers in the order of the new list,
\* removed in the order of the old list, nothing is sorted; a second diff of
\* the same two lists gives the same three sequences.
C19_DiffOrdering ==
  changesReport # Null =>
    LET new == Content(fs.list)
        old == Content(fs.old)
    IN /\ Report.added = InOrderOf(new, NewRecords(new, old))
       /\ Report.updated = InOrderOf(new, ChangedRecords(new, old))
       /\ Report.removed = InOrderOf(old, GoneRecords(new, old))
       /\ Changes(new, old) = Report

C19_Witness ==
  /\ changesReport # Null
  /\ Len(Report.removed) = 2 /\ Report.removed[1] > Report.removed[2]
  /\ Report.added # <<>>

\* C20: a list diffed against an equal list gives three empty lists, and
\* the file written holds them; a list_changes_files run that fetches the
\* list it started with renders nothing and leaves the PDFs folder as it
\* found it.
C20_NoOpStability ==
  /\ (changesReport # Null /\ fs.list # NoFile /\ fs.list = fs.old) =>
       /\ Report.added = <<>> /\ Report.updated = <<>> /\ Report.removed = <<>>
       /\ fs.changes = changesReport
  /\ (/\ RunOver /\ mode = "list_changes_files"
      /\ changesReport # Null /\ articlesList = startList) =>
       /\ rendered = {} /\ failed = {}
       /\ fs.pdfs = startPdfs

C20_Witness ==
  /\ RunOver /\ mode = "list_changes_files"
  /\ changesReport # Null /\ articlesList = startList
  /\ Len(Content(startList)) = 2
  /\ startPdfs = NumberSet(startList) /\ fs.pdfs = startPdfs
  /\ fs.list = fs.old

Mandatory == {"output_dir", "sn_instance_name", "sn_user_name", "sn_pass"}

\* A mandatory setting is missing from the settings.
Missing(data) == \E key \in Mandatory : key \notin DOMAIN data \/ data[key] = {}

\* The command line holds an argument of no known name.
Unrecognised(argv) ==
  \E t \in Range(argv) : \A i \in 1..Len(appArgs) : t.name \notin Range(appArgs[i].names)

\* The settings are in error: one is missing, or the directory is not there.
InError(data, in) ==
  Missing(data) \/ data["output_dir"] \cap in.dirs = {}

\* C16: up to the end of the validation nothing is written to the output
\* directory, the marker included, and nothing is asked of the instance;
\* an argument that is not recognised, a mandatory setting missing from the
\* merged settings and an output directory that does not exist each end the
\* run there with status 2.
C16_ConfigErrorsBeforeMutation ==
  [][pc = "start" =>
       /\ fs' = fs /\ ~fs'.lock
       /\ articlesList' = Undefined /\ ~fetchFailed' /\ mode' = "none"
       /\ (\/ Unrecognised(Content(input).argv)
           \/ /\ finalInputData' # NoSettings
              /\ InError(Content(finalInputData'), Content(input)))
          => (status' = Resolved(2) /\ pc' = "exit")]_vars

C16_Witness ==
  /\ pc = "exit" /\ status = Resolved(2) /\ mode = "none"
  /\ finalInputData # NoSettings
  /\ ~Missing(Content(finalInputData))
  /\ Content(finalInputData)["output_dir"] \cap Content(input).dirs = {}
  /\ fs = EmptyDir

SettingKeys == Mandatory \cup {"storage_mode", "operation_mode"}

\* The value of a setting, by precedence: the command line, the named
\* profile, the default profile, the built-in defaults; {} when none has it.
ByPrecedence(in, key) ==
  LET args == Content(getArguments(appArgs, Null, in.argv))
      named == IF "config_profile" \in DOMAIN args
               THEN OrEmpty(getConfigData(in.config, "work"))
               ELSE <<>>
      default == OrEmpty(getConfigData(in.config, "default"))
  IN IF key \in DOMAIN args THEN {args[key]}
     ELSE IF key \in DOMAIN named THEN {named[key]}
     ELSE IF key \in DOMAIN default THEN {default[key]}
     ELSE IF key \in DOMAIN appArgDefaults THEN {appArgDefaults[key]}
     ELSE {}

\* C17 (as claimed): each merged setting has the value precedence gives it,
\* and a run whose mandatory settings are all on the command line, naming a
\* directory that exists, is not ended by the validation.
C17_SettingsPrecedence ==
  finalInputData # NoSettings =>
    LET in == Content(input)
        data == Content(finalInputData)
    IN /\ \A key \in SettingKeys :
            ByPrecedence(in, key) = IF key \in DOMAIN data THEN {data[key]} ELSE {}
       /\ (/\ \A key \in Mandatory : \E t \in Range(in.argv) :
                \E i \in 1..Len(appArgs) :
                  t.name \in Range(appArgs[i].names) /\ appArgs[i].names[1] = key
           /\ "args" \in in.dirs)
          => ~(pc = "exit" /\ mode = "none" /\ status = Resolved(2))

\* C21: after a list_files run whose fetch succeeded and in which every
\* article of the list was rendered, the PDFs folder holds the numbers of
\* the list file, which is the fetched list, and nothing else, whatever it
\* held before.
C21_ListFilesTerminal ==
  (/\ RunOver /\ mode = "list_files"
   /\ articlesList # Undefined
   /\ failed = {} /\ NumberSet(articlesList) \subseteq rendered)
  => /\ fs.list = articlesList
     /\ fs.pdfDir
     /\ fs.pdfs = NumberSet(fs.list)

C21_Witness ==
  /\ RunOver /\ mode = "list_files"
  /\ articlesList # Undefined /\ Content(articlesList) # <<>>
  /\ failed = {} /\ NumberSet(articlesList) \subseteq rendered
  /\ ~(startPdfs \subseteq NumberSet(articlesList))
  /\ fs.pdfs = NumberSet(fs.list)

\* C22: a list run has cleared the output directory, the marker apart, when
\* it fetches; once the fetch has succeeded the list file holds the fetched
\* records in the order fetched, and there is no .old file, no report, no
\* PDF, no archive and no merged document.
C22_ListTerminal ==
  /\ (mode = "list" /\ pc = "fetch") => fs = [EmptyDir EXCEPT !.lock = TRUE]
  /\ (mode = "list" /\ articlesList # Undefined) =>
       fs = [EmptyDir EXCEPT !.list = articlesList, !.lock = (pc # "exit")]

C22_Witness ==
  /\ RunOver /\ mode = "list"
  /\ articlesList # Undefined /\ Len(Content(articlesList)) = 2
  /\ Content(articlesList)[1].sys_id > Content(articlesList)[2].sys_id
  /\ startList # NoFile /\ startList # articlesList /\ startPdfs # {}
  /\ fs.list = articlesList /\ fs.old = NoFile /\ fs.changes = NoFile

\* A string is another with whitespace taken from its two ends, and has
\* none left there.
IsTrimOf(t, str) ==
  /\ \E i \in 0..Len(str), j \in 0..Len(str) :
       /\ i + Len(t) + j = Len(str)
       /\ t = SubSeq(str, i + 1, i + Len(t))
       /\ \A k \in (1..i) \cup ((Len(str) - j + 1)..Len(str)) : str[k] = " "
  /\ t # <<>> => (t[1] # " " /\ t[Len(t)] # " ")

\* C23: the query getArticlesList sends starts with workflow_state=published;
\* it is that alone when the filter is absent, empty or whitespace, and that,
\* "^" and the trimmed filter otherwise.
C23_BaselineFilter ==
  query # NoQuery =>
    LET q == Content(query)
        given == IF filter = NoFilter THEN <<>> ELSE Content(filter)
    IN /\ Len(q) >= 1 /\ SubSeq(q, 1, 1) = <<"workflow_state=published">>
       /\ IF \A i \in 1..Len(given) : given[i] = " "
          THEN q = <<"workflow_state=published">>
          ELSE /\ Len(q) >= 3 /\ q[2] = "^"
               /\ IsTrimOf(SubSeq(q, 3, Len(q)), given)

C23_Witness ==
  /\ query # NoQuery /\ filter # NoFilter
  /\ Content(filter) = <<" ", "x", " ", "x">>
  /\ Content(query) = <<"workflow_state=published", "^", "x", " ", "x">>

\* The command line asks for the help, under either name.
AsksHelp(argv) == \E t \in Range(argv) : t.name \in {"help", "h"} /\ t.value = {}

C25_SequentialRendering ==
  [][/\ (pc # "login" /\ pc' = "login") =>
          queue' = IF mode = "list_files" \/ fallback
                   THEN NumbersOf(Content(articlesList))
                   ELSE LET new == Content(fs'.list)
                            old == Content(fs'.old)
                        IN InOrderOf(new, ChangedRecords(new, old))
                             \o InOrderOf(new, NewRecords(new, old))
     /\ (pc = "login" /\ pc' = "render") =>
          (queue' = queue /\ rendered' = {} /\ failed' = {})
     /\ (pc = "render" /\ queue' # queue) =>
          /\ queue # <<>> /\ queue' = Tail(queue) /\ pc' = "render"
          /\ \/ rendered' = rendered \cup {Head(queue)} /\ failed' = failed
             \/ failed' = failed \cup {Head(queue)} /\ rendered' = rendered
     /\ (pc = "render" /\ queue' = queue) =>
          (rendered' = rendered /\ failed' = failed)
     /\ (pc = "render" /\ pc' # "render") => queue = <<>>]_vars

C25_Witness ==
  /\ pc = "render" /\ mode = "list_changes_files" /\ ~fallback
  /\ changesReport # Null
  /\ Len(Report.updated) = 1 /\ Len(Report.added) = 1
  /\ Report.updated # Report.added
  /\ failed = Range(Report.updated) /\ rendered = {}
  /\ queue = Report.added

\* C26: from the moment mainExec has opened the session until it closes it,
\* the marker is in the output directory: resetWorkspace, the deletions of
\* full mode, the folder clear of newer-only mode and the packaging leave it.
C26_MarkerSurvives ==
  pc \notin {"idle", "exit"} => Exists(fs, OnDisk(LOCK_FILE_NAME))

C26_Witness ==
  /\ pc = "close" /\ mode = "list_changes_files" /\ ~newerOnly
  /\ changesReport # Null /\ Report.removed # <<>>
  /\ fs.archive
  /\ Exists(fs, OnDisk(LOCK_FILE_NAME))

\* The names of the payloads of the program, long name first, and the
\* values the two restricted payloads admit.
LongName(name) ==
  CASE name \in {"output_dir", "od"} -> "output_dir"
    [] name \in {"sn_instance_name", "sni"} -> "sn_instance_name"
    [] name \in {"sn_user_name", "snu"} -> "sn_user_name"
    [] name \in {"sn_pass", "snp"} -> "sn_pass"
    [] name \in {"help", "h"} -> "help"
    [] name \in {"init_config", "ic"} -> "init_config"
    [] name \in {"config_profile", "cp"} -> "config_profile"
    [] name \in {"sn_query", "snq"} -> "sn_query"
    [] name \in {"storage_mode", "sm"} -> "storage_mode"
    [] name \in {"operation_mode", "om"} -> "operation_mode"
    [] OTHER -> ""

Understood(t) ==
  /\ LongName(t.name) # ""
  /\ (LongName(t.name) \in {"help", "init_config"}) <=> (t.value = {})
  /\ LongName(t.name) = "operation_mode" =>
       t.value \subseteq {"list", "list_changes", "list_files", "list_changes_files"}
  /\ LongName(t.name) = "storage_mode" =>
       t.value \subseteq {"files", "archived_files", "single_file"}

\* C27: getArguments returns null exactly when an argument that is not the
\* empty string matches no payload; otherwise its keys are those of the
\* defaults and the long names of the arguments, and each key has what the
\* last argument of that name gave, true for a flag, or else its default.
C27_ArgumentParsing ==
  argValues # NotParsed =>
    LET in == Content(input)
        result == Content(argValues)
        given == {i \in 1..Len(in.argv) : in.argv[i].name # ""}
        defaults == IF in.defaults = Null THEN <<>> ELSE Content(in.defaults)
        last(key) == CHOOSE i \in given :
                       /\ LongName(in.argv[i].name) = key
                       /\ \A j \in given : LongName(in.argv[j].name) = key => j <= i
    IN IF \E i \in given : ~Understood(in.argv[i])
       THEN result = Null
       ELSE /\ result # Null
            /\ DOMAIN Content(result)
                 = DOMAIN defaults \cup {LongName(in.argv[i].name) : i \in given}
            /\ \A key \in DOMAIN Content(result) :
                 Content(result)[key] =
                   IF \E i \in given : LongName(in.argv[i].name) = key
                   THEN IF in.argv[last(key)].value = {} THEN {TRUE}
                        ELSE in.argv[last(key)].value
                   ELSE defaults[key]

C27_Witness ==
  /\ argValues # NotParsed /\ Content(argValues) # Null
  /\ Content(input).argv =
       <<[name |-> "od", value |-> {"b"}], [name |-> "", value |-> {}],
         [name |-> "h", value |-> {}]>>
  /\ Content(input).defaults # Null
  /\ Content(Content(argValues)) =
       [output_dir |-> {"b"}, storage_mode |-> {"files"}, help |-> {TRUE}]

\* C28: of two processes started on the same output directory with no
\* marker in it, at most one is ever inside the operation body, and the
\* marker is there as long as a process is inside its operation body.
C28_MutualExclusion ==
  pc = "race" =>
    LET inside == {p \in Processes : processes[p] \in OperationBody}
    IN /\ Cardinality(inside) <= 1
       /\ inside # {} => Exists(fs, OnDisk(LOCK_FILE_NAME))

\* C29: when fetchArticles is called with resetTarget, the clearing of the
\* target folder is over before the first article is rendered, and every
\* file rendered in the run is in the folder while the loop runs, whatever
\* callback was passed.
C29_ClearPrecedesRendering ==
  (pc = "render" /\ ResetTarget) =>
    /\ rendered # {} => clearQueue = {}
    /\ rendered \subseteq fs.pdfs

\* C30: a list_changes_files run in full mode that finds the catalog as the
\* run before it left it in the list file queues for rendering every record
\* of the snapshot that has no file in the PDFs folder, so that the render
\* that failed in an earlier run is attempted again.
C30_FailedRendersRepaired ==
  [][(/\ pc = "apply" /\ pc' # "apply"
      /\ mode = "list_changes_files" /\ ~newerOnly /\ ~fallback
      /\ articlesList # Undefined /\ articlesList = startList) =>
       (NumberSet(articlesList) \ startPdfs) \subseteq Range(queue')]_vars

\* What getConfigData makes of a profile that holds the one setting.
Accepts(key, value) ==
  getConfigData([profile |-> File(key :> value)], "profile") = File(key :> {value})

\* The values of storage_mode the second switch of mainExec has a case for,
\* and the one that asks for nothing more than the PDFs folder.
StorageCases == {"archived_files", "single_file"}
PlainStorage == {"files"}

\* C31 (as claimed): a run whose operation_mode getConfigData accepts goes
\* from the first switch of mainExec to an operation, with its promise
\* pending, and every storage_mode getConfigData accepts is "files" or has a
\* case in the second switch.
C31_AcceptedModesHandled ==
  [][/\ (pc = "idle" /\ pc' # "idle" /\ Accepts("operation_mode", mode')) =>
          /\ pc' \in {"reset", "rotate", "changes_files"}
          /\ status' = Pending
     /\ (pc = "storage" /\ pc' = "close") =>
          \A sm \in StorageModes :
            Accepts("storage_mode", sm) => sm \in StorageCases \cup PlainStorage]_vars

\* The settings of a profile that getConfigData did not make null.
KeptSettings(data) == [key \in {k \in DOMAIN data : data[k] # Null} |-> data[key]]

\* C32 (as claimed): the merged settings are what the merge gives when the
\* settings getConfigData made null (an empty string, a mode that is not
\* valid) are left out of the profiles, so that such a setting overrides
\* nothing; with a profile whose operation_mode is empty and nothing else
\* naming one, the run goes on in list_files.
C32_EmptySettingsIgnored ==
  finalInputData # NoSettings =>
    LET in == Content(input)
        args == Content(getArguments(appArgs, Null, in.argv))
        defaultProfileData == OrEmpty(getConfigData(in.config, "default"))
        profileData ==
          IF ~Falsy(args, "config_profile")
          THEN OrEmpty(getConfigData(in.config,
                                     CHOOSE v \in args["config_profile"] : TRUE))
          ELSE <<>>
    IN Content(finalInputData) =
         mergeData(appArgDefaults, KeptSettings(defaultProfileData),
                   KeptSettings(profileData), args)

\* C33: in a list_changes_files run whose fetch succeeded, the primary
\* snapshot, the previous snapshot, the change report and the list of the
\* articles handed to fetchArticles are determined by the list file the run
\* found and the snapshot it fetched, with newerOnly set as with newerOnly
\* unset: the snapshot fetched, the list file found, their changes, and the
\* updated numbers followed by the added ones (on a first run, whose
\* fallback is not passed newerOnly: the snapshot, no previous snapshot, no
\* report, every number of the snapshot).
C33_NewerOnlyOnlyPdfs ==
  [][(/\ mode' = "list_changes_files" /\ articlesList' # Undefined
      /\ pc' \in {"login", "render", "storage", "close", "exit"}) =>
       LET expected == Changes(Content(articlesList'), Content(startList'))
       IN IF fallback'
          THEN /\ fs'.list = articlesList' /\ fs'.old = NoFile /\ fs'.changes = NoFile
               /\ pc = "mkdir" => queue' = NumbersOf(Content(articlesList'))
          ELSE /\ fs'.list = articlesList' /\ fs'.old = startList'
               /\ fs'.changes = File(expected)
               /\ pc = "apply" => queue' = expected.updated \o expected.added]_vars

C33_Witness ==
  /\ RunOver /\ mode = "list_changes_files" /\ newerOnly /\ ~fallback
  /\ articlesList # Undefined /\ changesReport # Null
  /\ Report.updated # <<>> /\ Report.added # <<>>
  /\ Range(Report.updated \o Report.added) \subseteq rendered
  /\ startPdfs \ fs.pdfs # {}

\* The report without the removed and updated numbers that have no file in
\* the PDFs folder.
OnlyPresent(report, f) ==
  [report EXCEPT !.removed = SelectSeq(@, LAMBDA n : n \in f.pdfs),
                 !.updated = SelectSeq(@, LAMBDA n : n \in f.pdfs)]

\* C34: the deletion step of a list_changes_files run with newerOnly unset
\* that has a report changes nothing of the output directory but the files
\* of the PDFs folder, deletes there no file but <number>.pdf for a number
\* of removed or updated, and leaves the directory as it would with the
\* listed files that do not exist taken off the list.
C34_TargetedDeletion ==
  [][(/\ pc = "apply" /\ pc' # "apply"
      /\ mode = "list_changes_files" /\ ~newerOnly /\ changesReport # Null) =>
       LET report == Content(changesReport)
           listed == Range(report.removed \o report.updated)
           pdfHome == PathJoin(invocation'.dir,
                               [abs |-> FALSE, segs |-> <<PdfFolderName>>])
       IN /\ fs = [fs' EXCEPT !.pdfs = fs.pdfs]
          /\ fs'.pdfs \subseteq fs.pdfs
          /\ fs.pdfs \ fs'.pdfs \subseteq listed
          /\ LET present == Removals(OnlyPresent(report, fs), pdfHome)
             IN fs' = IF Len(present) > 0
                      THEN RemoveFolderContents(fs, invocation'.dir, present,
                                                invocation'.cwd)
                      ELSE fs]_vars

\* The step deleted the file of a removed article that was listed after a
\* removed article with no file, and nothing else.
C34_Witness ==
  /\ pc = "storage" /\ mode = "list_changes_files" /\ ~newerOnly
  /\ changesReport # Null /\ rendered = {} /\ failed = {}
  /\ Len(Report.removed) = 2
  /\ Report.removed[1] \notin startPdfs
  /\ Report.removed[2] \in startPdfs \ fs.pdfs
  /\ fs.list # NoFile /\ fs.old # NoFile /\ fs.changes # NoFile /\ fs.lock

\* C35 (as claimed): the promise of mainExec is settled, with 0, 1 or 2,
\* once the process has nothing left to do, whatever the steps did, the
\* throw of openSession on a marker that appeared after canOpenSession
\* included; and a settled promise keeps its value.
C35_AlwaysSettles ==
  [][/\ pc' = "race" =>
          \A p \in Processes :
            processes'[p] \in Ended =>
              StatusAt(processes'[p]) \in {Resolved(0), Resolved(1), Resolved(2)}
     /\ (pc \notin {"race", "exit"} /\ status # Pending /\ pc' # "idle") =>
          status' = status
     /\ pc' = "exit" => status' \in {Resolved(0), Resolved(1), Resolved(2)}]_vars

====
